---- MODULE Spec2Model ----
(***************************************************************************)
(* Model of src/proto_tcp.c: the AF_INET/AF_INET6 SOCK_STREAM protocol     *)
(* layer.  The listener registries (proto_tcpv4, proto_tcpv6), the         *)
(* listener bind state machine (tcp_bind_listener, tcp_bind_listeners),    *)
(* the foreign bind helper (tcpv4_bind_socket), the "tcp-request" keyword  *)
(* (tcp_parse_tcp_req) and the inspection of a session by the rules it     *)
(* declares (acl_fetch_req_len and the rule evaluation it serves).         *)
(*                                                                         *)
(* System calls are modelled by their outcome: every call the code makes   *)
(* is appended to the trace of the running function together with its      *)
(* result, and the result is drawn from the set of calls that fail.        *)
(***************************************************************************)
EXTENDS Integers, Sequences, FiniteSets, TLC

(* ------------------------------------------------------------------ *)
(* Bounds of the model                                                 *)
(* ------------------------------------------------------------------ *)

\* number of listener objects of the configuration
NListeners == 2

\* global.maxsock: the size of the fd table; socket() may return 0..MaxSock
MaxSock == 2

\* size of the caller's message buffer, tried besides 0 and 1
LongLen == 64

\* size of a buffer too short for some of the messages
ShortLen == 24

\* IPv4 hosts and ports of the configuration are 1..MaxHost and 1..MaxPort
MaxHost == 2

MaxPort == 2

Listeners == 1..NListeners

Fds == 0..MaxSock

(* ------------------------------------------------------------------ *)
(* common/errors.h, types/protocols.h                                  *)
(* ------------------------------------------------------------------ *)

ERR_NONE == 0

ERR_RETRYABLE == 1

ERR_FATAL == 2

ERR_ABORT == 4

ERR_WARN == 8

ERR_ALERT == 16

\* ERR_CODE: mask of the outcome bits (ERR_RETRYABLE|ERR_FATAL|ERR_ABORT)
ERR_CODE == 7

LI_O_NOLINGER == 1

LI_O_FOREIGN == 2

LI_INIT == "LI_INIT"

LI_ASSIGNED == "LI_ASSIGNED"

LI_LISTEN == "LI_LISTEN"

\* the C operators & and | on non-negative ints
RECURSIVE BitAnd(_, _)
BitAnd(a, b) ==
  IF a = 0 \/ b = 0 THEN 0
  ELSE (a % 2) * (b % 2) + 2 * BitAnd(a \div 2, b \div 2)

RECURSIVE BitOr(_, _)
BitOr(a, b) ==
  IF a = 0 THEN b
  ELSE IF b = 0 THEN a
  ELSE (IF a % 2 = 1 \/ b % 2 = 1 THEN 1 ELSE 0) + 2 * BitOr(a \div 2, b \div 2)

\* strlcpy2(dst, src, size): at most size-1 characters of src, then '\0'
strlcpy2(src, size) ==
  IF size <= 1 THEN ""
  ELSE IF Len(src) <= size - 1 THEN src
  ELSE SubSeq(src, 1, size - 1)

(* ------------------------------------------------------------------ *)
(* State                                                               *)
(* ------------------------------------------------------------------ *)

VARIABLES
  li_state,            \* listener->state
  li_fd,               \* listener->fd (-1: none)
  li_proto,            \* listener->proto ("NULL" before it is assigned)
  li_options,          \* listener->options (LI_O_* bits, set by the configuration)
  listeners,           \* proto_tcpv4.listeners, proto_tcpv6.listeners
  nb_listeners,        \* proto_tcpv4.nb_listeners, proto_tcpv6.nb_listeners
  open_fds,            \* the descriptors of the process that are open
  fdtab,               \* fdtab[fd] of the event layer
  errbuf,              \* the caller's message buffer
  ip_transp_working,   \* static int ip_transp_working of tcpv4_bind_socket
  build,               \* which of the #ifdef blocks are compiled in
  ba,                  \* the activation of tcp_bind_listeners: position, err
  fb_local,            \* the source address tcpv4_bind_socket is given as <local>
  fb_remote,           \* the address it is given as <remote>: <<>> (NULL) or <<addr>>
  call,                \* the last call: arguments and result
  sys,                 \* the system calls the last call made, where they are traced
  curpx,               \* the proxy whose section is parsed: cap, tcp_req
  parsed,              \* the tcp-request lines of the section that returned 0, in order
  sess                 \* the session of an accepted connection and its inspection

vars == <<li_state, li_fd, li_proto, li_options, listeners, nb_listeners,
          open_fds, fdtab, errbuf, ip_transp_working, build, ba,
          fb_local, fb_remote, call, sys, curpx, parsed, sess>>

\* what the tcp-request keyword and the inspection of a session work on
tcp_req_vars == <<curpx, parsed, sess>>

Protos == {"tcpv4", "tcpv6"}

\* an unused entry of fdtab
FdFree == [owner |-> 0, cb_rd |-> "NULL", cb_wr |-> "NULL", state |-> "FD_STCLOSE"]

\* listener->accept: the accept callback the configuration gave the listener
li_accept(l) == "event_accept"

BaIdle == [pc |-> "idle", proto |-> "NULL", i |-> 0, err |-> ERR_NONE,
           attempted |-> <<>>, codes |-> <<>>]

NoCall == [op |-> "none"]

Builds == [LINUX_TPROXY : BOOLEAN, CTTPROXY : BOOLEAN, SO_REUSEPORT : BOOLEAN]

\* struct sockaddr_in: sin_addr and sin_port
Addrs == [host : 1..MaxHost, port : 1..MaxPort]

\* memset(&bind_addr, 0, sizeof(bind_addr))
ZeroAddr == [host |-> 0, port |-> 0]

\* proto_tcpv4 and proto_tcpv6 as initialised; listeners as the parser leaves them
InitRegistry ==
  /\ li_state = [l \in Listeners |-> LI_INIT]
  /\ li_fd = [l \in Listeners |-> -1]
  /\ li_proto = [l \in Listeners |-> "NULL"]
  /\ listeners = [p \in Protos |-> <<>>]
  /\ nb_listeners = [p \in Protos |-> 0]
  /\ open_fds = {}
  /\ fdtab = [f \in Fds |-> FdFree]
  /\ errbuf = ""
  /\ ip_transp_working = 1
  /\ ba = BaIdle
  /\ call = NoCall
  /\ sys = <<>>

\* struct proxy as the parser creates it for a section: whether it is the
\* defaults section (curpx == defpx), its capabilities, and tcp_req empty
Px(defaults, cap_fe) ==
  [id |-> "px", defaults |-> defaults, cap_fe |-> cap_fe,
   tcp_req |-> [inspect_delay |-> 0, inspect_rules |-> <<>>]]

\* no connection accepted yet
NoSession == [state |-> "NONE"]

\* one frontend with no tcp-request line, and no session
InitProxy ==
  /\ curpx = Px(FALSE, TRUE)
  /\ parsed = <<>>
  /\ sess = NoSession

\* the listeners as configured: every listener gets each of the four option
\* sets in some configuration; tcpv4_bind_socket is not called
InitListeners ==
  /\ InitRegistry
  /\ InitProxy
  /\ \E k \in 0..3 : li_options = [l \in Listeners |-> (l + k) % 4]
  /\ fb_local = ZeroAddr
  /\ fb_remote = <<>>

\* CONFIG_HAP_CTTPROXY is not referenced by the listener code, and
\* SO_REUSEPORT only adds a call whose result is not looked at, which shows
\* in the trace of the calls alone
Init ==
  /\ InitListeners
  /\ build \in {b \in Builds : ~b.CTTPROXY /\ ~b.SO_REUSEPORT}

\* the builds with and without SO_REUSEPORT, for the traced calls
InitSys ==
  /\ InitListeners
  /\ build \in {b \in Builds : ~b.CTTPROXY}

(* ------------------------------------------------------------------ *)
(* tcpv4_add_listener, tcpv6_add_listener                              *)
(* ------------------------------------------------------------------ *)

\* add_listener without the state guard of lines 312 and 326
add_listener_unguarded(l, p) ==
  /\ li_state' = [li_state EXCEPT ![l] = LI_ASSIGNED]
  /\ li_proto' = [li_proto EXCEPT ![l] = p]
  /\ listeners' = [listeners EXCEPT ![p] = Append(@, l)]
  /\ nb_listeners' = [nb_listeners EXCEPT ![p] = @ + 1]

\* add_listener without the nb_listeners++ of lines 317 and 331
add_listener_no_count(l, p) ==
  IF li_state[l] /= LI_INIT
  THEN UNCHANGED <<li_state, li_proto, listeners, nb_listeners>>
  ELSE /\ li_state' = [li_state EXCEPT ![l] = LI_ASSIGNED]
       /\ li_proto' = [li_proto EXCEPT ![l] = p]
       /\ listeners' = [listeners EXCEPT ![p] = Append(@, l)]
       /\ UNCHANGED nb_listeners

\* the body both functions share, for the registry p they name
add_listener(l, p) ==
  IF li_state[l] /= LI_INIT
  THEN UNCHANGED <<li_state, li_proto, listeners, nb_listeners>>
  ELSE /\ li_state' = [li_state EXCEPT ![l] = LI_ASSIGNED]
       /\ li_proto' = [li_proto EXCEPT ![l] = p]
       /\ listeners' = [listeners EXCEPT ![p] = Append(@, l)]
       /\ nb_listeners' = [nb_listeners EXCEPT ![p] = @ + 1]

tcpv4_add_listener(l) ==
  /\ ba.pc /= "loop"
  /\ add_listener(l, "tcpv4")
  /\ call' = [op |-> "add", l |-> l, proto |-> "tcpv4", pre_state |-> li_state[l]]
  /\ sys' = <<>>
  /\ ba' = BaIdle
  /\ UNCHANGED <<li_fd, li_options, open_fds, fdtab, errbuf, ip_transp_working, build,
                 fb_local, fb_remote, curpx, parsed, sess>>

tcpv6_add_listener(l) ==
  /\ ba.pc /= "loop"
  /\ add_listener(l, "tcpv6")
  /\ call' = [op |-> "add", l |-> l, proto |-> "tcpv6", pre_state |-> li_state[l]]
  /\ sys' = <<>>
  /\ ba' = BaIdle
  /\ UNCHANGED <<li_fd, li_options, open_fds, fdtab, errbuf, ip_transp_working, build,
                 fb_local, fb_remote, curpx, parsed, sess>>

(* ------------------------------------------------------------------ *)
(* tcp_bind_listener                                                   *)
(* ------------------------------------------------------------------ *)

\* the guard of line 202 testing for LI_INIT only
already_bound_init_only(l) == li_state[l] = LI_INIT

\* tcp_bind_listener without the test of line 202
already_bound_never(l) == FALSE

\* line 202: listener->state != LI_ASSIGNED, "already bound"
already_bound(l) == li_state[l] /= LI_ASSIGNED

\* one system call of the trace and whether it succeeded
Sc(name, ok) == [sc |-> name, ok |-> ok]

\* the outcome o of the system calls: o.fd is what socket() returns,
\* o.failing the calls that return -1 when made
Ok(o, name) == name \notin o.failing

\* the best-effort calls tcp_bind_listener makes on listener l in this build
SoftCalls(l) ==
  {"SO_REUSEADDR"}
  \cup (IF BitAnd(li_options[l], LI_O_NOLINGER) /= 0 THEN {"SO_LINGER"} ELSE {})
  \cup (IF build.SO_REUSEPORT THEN {"SO_REUSEPORT"} ELSE {})
  \cup (IF build.LINUX_TPROXY /\ BitAnd(li_options[l], LI_O_FOREIGN) /= 0
        THEN {"IP_TRANSPARENT", "IP_FREEBIND"} ELSE {})

\* the sets of failing calls that differ in what the code observes:
\* IP_FREEBIND is only made after IP_TRANSPARENT failed, and the calls
\* after a failed fcntl/TCP_NODELAY/bind are never made
FailingSets(l) ==
  {{"fcntl"}, {"TCP_NODELAY"}}
  \cup {s \cup h : s \in {t \in SUBSET SoftCalls(l) :
                            "IP_FREEBIND" \in t => "IP_TRANSPARENT" \in t},
                   h \in {{}, {"bind"}, {"listen"}}}

\* the lowest descriptor of the fd table that is not open, if there is one
FreeFds == {g \in Fds \ open_fds : g < MaxSock /\ \A h \in Fds \ open_fds : g <= h}

\* what the kernel may answer to a bind of listener l: socket() fails, or
\* returns the lowest free descriptor, or (the descriptors below held
\* elsewhere in the process) one beyond the fd table
BindOutcomes(l) ==
  IF already_bound(l) THEN {[fd |-> -1, failing |-> {}]}
  ELSE {[fd |-> -1, failing |-> {}], [fd |-> MaxSock, failing |-> {}]}
       \cup [fd : FreeFds, failing : FailingSets(l)]

\* the locals err, msg and the calls made so far
Frame(err, msg, trace) == [err |-> err, msg |-> msg, trace |-> trace]

\* SO_REUSEADDR with its result not looked at
step_reuseaddr_silent(f, o) ==
  Frame(f.err, f.msg, Append(f.trace, Sc("SO_REUSEADDR", Ok(o, "SO_REUSEADDR"))))

\* lines 227-231: SO_REUSEADDR, not fatal but reported
step_reuseaddr(f, o) ==
  IF ~Ok(o, "SO_REUSEADDR")
  THEN Frame(BitOr(f.err, ERR_ALERT), <<"cannot do so_reuseaddr">>,
             Append(f.trace, Sc("SO_REUSEADDR", FALSE)))
  ELSE Frame(f.err, f.msg, Append(f.trace, Sc("SO_REUSEADDR", TRUE)))

\* lines 233-234: SO_LINGER when LI_O_NOLINGER, the result is not looked at
step_linger(f, l, o) ==
  IF BitAnd(li_options[l], LI_O_NOLINGER) /= 0
  THEN Frame(f.err, f.msg, Append(f.trace, Sc("SO_LINGER", Ok(o, "SO_LINGER"))))
  ELSE f

\* lines 236-241: SO_REUSEPORT when defined, the result is not looked at
step_reuseport(f, o) ==
  IF build.SO_REUSEPORT
  THEN Frame(f.err, f.msg, Append(f.trace, Sc("SO_REUSEPORT", Ok(o, "SO_REUSEPORT"))))
  ELSE f

\* lines 242-249: IP_TRANSPARENT, then IP_FREEBIND, when LI_O_FOREIGN
step_transparent(f, l, o) ==
  IF build.LINUX_TPROXY /\ BitAnd(li_options[l], LI_O_FOREIGN) /= 0
  THEN IF Ok(o, "IP_TRANSPARENT")
       THEN Frame(f.err, f.msg, Append(f.trace, Sc("IP_TRANSPARENT", TRUE)))
       ELSE IF Ok(o, "IP_FREEBIND")
       THEN Frame(f.err, f.msg,
                  f.trace \o <<Sc("IP_TRANSPARENT", FALSE), Sc("IP_FREEBIND", TRUE)>>)
       ELSE Frame(BitOr(f.err, ERR_ALERT), <<"cannot make listening socket transparent">>,
                  f.trace \o <<Sc("IP_TRANSPARENT", FALSE), Sc("IP_FREEBIND", FALSE)>>)
  ELSE f

\* lines 219-221: fcntl(O_NONBLOCK) || setsockopt(TCP_NODELAY), left to right
nonblock_calls(o) ==
  IF ~Ok(o, "fcntl") THEN <<Sc("fcntl", FALSE)>>
  ELSE <<Sc("fcntl", TRUE), Sc("TCP_NODELAY", Ok(o, "TCP_NODELAY"))>>

\* tcp_return returning err without the copy of lines 277-278
tcp_return_no_copy(f, buf, errlen, fd, ready) ==
  [ret |-> f.err, buf |-> buf, trace |-> f.trace, fd |-> fd, ready |-> ready]

\* tcp_return: copy the message if there is one and room for it, return err
tcp_return(f, buf, errlen, fd, ready) ==
  [ret |-> f.err,
   buf |-> IF f.msg /= <<>> /\ errlen /= 0 THEN strlcpy2(f.msg[1], errlen) ELSE buf,
   trace |-> f.trace, fd |-> fd, ready |-> ready]

\* tcp_close_return jumping to tcp_return without close(fd)
tcp_close_return_leak(f, buf, errlen, fd) ==
  tcp_return(f, buf, errlen, fd, FALSE)

\* tcp_close_return: close(fd); goto tcp_return
tcp_close_return(f, buf, errlen, fd) ==
  tcp_return(Frame(f.err, f.msg, Append(f.trace, Sc("close", TRUE))), buf, errlen, fd, FALSE)

\* err |= flags; msg = text
Fail(f, flags, text) == Frame(BitOr(f.err, flags), <<text>>, f.trace)

\* lines 199-200: if (errmsg && errlen) *errmsg = 0
clear_errmsg(errmsg, errlen) ==
  IF errmsg /= "NULL" /\ errlen /= 0 THEN "" ELSE errbuf

\* line 208
socket_failed == BitOr(ERR_RETRYABLE, ERR_ALERT)

\* line 214 without ERR_ABORT
maxsock_reached_no_abort == BitOr(ERR_FATAL, ERR_ALERT)

\* line 214
maxsock_reached == BitOr(ERR_FATAL, BitOr(ERR_ABORT, ERR_ALERT))

\* line 222
nonblock_failed == BitOr(ERR_FATAL, ERR_ALERT)

\* line 251
bind_failed == BitOr(ERR_RETRYABLE, ERR_ALERT)

\* line 257 without ERR_RETRYABLE
listen_failed_alert_only == ERR_ALERT

\* line 257
listen_failed == BitOr(ERR_RETRYABLE, ERR_ALERT)

\* tcp_bind_listener(listener, errmsg, errlen) under the outcome o: the
\* code returned, the buffer left, the calls made, the descriptor socket()
\* gave and whether "the socket is ready" was reached
tcp_bind_listener(l, errmsg, errlen, o) ==
  LET buf == clear_errmsg(errmsg, errlen)
  IN
  IF already_bound(l)
  THEN [ret |-> ERR_NONE, buf |-> buf, trace |-> <<>>, fd |-> -1, ready |-> FALSE]
  ELSE
  LET f0 == Frame(ERR_NONE, <<>>, <<Sc("socket", o.fd /= -1)>>)
      fd == o.fd
  IN
  IF fd = -1
  THEN tcp_return(Fail(f0, socket_failed,
                       "cannot create listening socket"), buf, errlen, fd, FALSE)
  ELSE IF fd >= MaxSock
  THEN tcp_close_return(Fail(f0, maxsock_reached,
                             "not enough free sockets (raise '-n' parameter)"),
                        buf, errlen, fd)
  ELSE
  LET f1 == Frame(f0.err, f0.msg, f0.trace \o nonblock_calls(o))
  IN
  IF ~Ok(o, "fcntl") \/ ~Ok(o, "TCP_NODELAY")
  THEN tcp_close_return(Fail(f1, nonblock_failed,
                             "cannot make socket non-blocking"), buf, errlen, fd)
  ELSE
  LET f2 == step_transparent(step_reuseport(step_linger(step_reuseaddr(f1, o), l, o), o), l, o)
      f3 == Frame(f2.err, f2.msg, Append(f2.trace, Sc("bind", Ok(o, "bind"))))
      f4 == Frame(f3.err, f3.msg, Append(f3.trace, Sc("listen", Ok(o, "listen"))))
  IN
  IF ~Ok(o, "bind")
  THEN tcp_close_return(Fail(f3, bind_failed, "cannot bind socket"),
                        buf, errlen, fd)
  ELSE IF ~Ok(o, "listen")
  THEN tcp_close_return(Fail(f4, listen_failed, "cannot listen to socket"),
                        buf, errlen, fd)
  ELSE tcp_return(f4, buf, errlen, fd, TRUE)

\* number of close() calls of a trace
RECURSIVE Closes(_)
Closes(trace) ==
  IF trace = <<>> THEN 0
  ELSE (IF Head(trace).sc = "close" THEN 1 ELSE 0) + Closes(Tail(trace))

\* the ready block giving fdtab[fd] the callback for writes too
listener_ready_with_write(l, fd) ==
  /\ li_fd' = [li_fd EXCEPT ![l] = fd]
  /\ li_state' = [li_state EXCEPT ![l] = LI_LISTEN]
  /\ fdtab' = [fdtab EXCEPT ![fd] = [owner |-> l, cb_rd |-> li_accept(l),
                                     cb_wr |-> li_accept(l), state |-> "FD_STLISTEN"]]

\* lines 263-275: listener->fd, listener->state, fd_insert and fdtab[fd]
listener_ready(l, fd) ==
  /\ li_fd' = [li_fd EXCEPT ![l] = fd]
  /\ li_state' = [li_state EXCEPT ![l] = LI_LISTEN]
  /\ fdtab' = [fdtab EXCEPT ![fd] = [owner |-> l, cb_rd |-> li_accept(l),
                                     cb_wr |-> "NULL", state |-> "FD_STLISTEN"]]

\* the effect of one call of tcp_bind_listener on the program and the kernel
bind_effect(l, r) ==
  /\ IF r.ready THEN listener_ready(l, r.fd)
     ELSE UNCHANGED <<li_fd, li_state, fdtab>>
  /\ open_fds' = IF r.fd /= -1 /\ Closes(r.trace) = 0
                 THEN open_fds \cup {r.fd} ELSE open_fds
  /\ errbuf' = r.buf
  /\ UNCHANGED <<li_proto, li_options, listeners, nb_listeners, ip_transp_working, build,
                 fb_local, fb_remote, curpx, parsed, sess>>

\* what the last call of tcp_bind_listener was given and returned
BindCall(l, errmsg, errlen, r) ==
  [op |-> "bind", l |-> l, errmsg |-> errmsg, errlen |-> errlen,
   pre_state |-> li_state[l], pre_msg |-> errbuf /= "",
   ret |-> r.ret, fd |-> r.fd]

\* the (errmsg, errlen) pairs callers pass: no buffer, or one of some length
BufArgs == {<<"NULL", 0>>, <<"errbuf", 0>>, <<"errbuf", 1>>, <<"errbuf", ShortLen>>,
            <<"errbuf", LongLen>>}

\* a call of tcp_bind_listener on l with one of the buffers A, the system
\* calls traced or not
BindWith(l, A, traced) ==
  /\ ba.pc /= "loop"
  /\ \E a \in A, o \in BindOutcomes(l) :
       \E r \in {tcp_bind_listener(l, a[1], a[2], o)} :
          /\ bind_effect(l, r)
          /\ call' = BindCall(l, a[1], a[2], r)
          /\ sys' = IF traced THEN r.trace ELSE <<>>
  /\ ba' = BaIdle

\* a direct call on any listener, without a message buffer
Bind(l) == BindWith(l, {<<"NULL", 0>>}, FALSE)

\* a direct call on the first listener, with every buffer, traced
BindTraced == BindWith(1, BufArgs \ {<<"NULL", 0>>}, TRUE)

(* ------------------------------------------------------------------ *)
(* tcp_bind_listeners                                                  *)
(* ------------------------------------------------------------------ *)

\* line 298 with = in place of |=
AccumulateLast(err, ret) == ret

\* line 298: err |= tcp_bind_listener(listener, NULL, 0)
Accumulate(err, ret) == BitOr(err, ret)

\* line 299: if ((err & ERR_CODE) == ERR_ABORT) break
LoopBreaks(err) == BitAnd(err, ERR_CODE) = ERR_ABORT

\* tcp_bind_listeners(proto) is entered: err = ERR_NONE, the cursor on the
\* first entry of proto->listeners; with no entry the loop ends at once
BindAllCall(p) ==
  /\ ba.pc /= "loop"
  /\ ba' = [pc |-> IF listeners[p] = <<>> THEN "done" ELSE "loop",
            proto |-> p, i |-> 1, err |-> ERR_NONE,
            attempted |-> <<>>, codes |-> <<>>]
  /\ call' = [op |-> "bind_all", proto |-> p]
  /\ sys' = <<>>
  /\ UNCHANGED <<li_state, li_fd, li_proto, li_options, listeners, nb_listeners,
                 open_fds, fdtab, errbuf, ip_transp_working, build,
                 fb_local, fb_remote, curpx, parsed, sess>>

\* one turn of list_for_each_entry: bind the listener under the cursor,
\* accumulate its code, then break, move on, or return err at the end
BindAllIter ==
  /\ ba.pc = "loop"
  /\ LET l == listeners[ba.proto][ba.i]
     IN \E o \in BindOutcomes(l) :
          \E r \in {tcp_bind_listener(l, "NULL", 0, o)} :
            \E err \in {Accumulate(ba.err, r.ret)} :
              /\ bind_effect(l, r)
              /\ call' = BindCall(l, "NULL", 0, r)
              /\ sys' = <<>>
              /\ ba' = [pc |-> IF LoopBreaks(err) \/ ba.i = Len(listeners[ba.proto])
                               THEN "done" ELSE "loop",
                        proto |-> ba.proto, i |-> ba.i + 1, err |-> err,
                        attempted |-> Append(ba.attempted, l),
                        codes |-> Append(ba.codes, r.ret)]

(* ------------------------------------------------------------------ *)
(* tcpv4_bind_socket                                                   *)
(* ------------------------------------------------------------------ *)

\* a system call of the trace, with the address it was given
ScA(name, ok, arg) == [sc |-> name, ok |-> ok, arg |-> arg]

\* the names of the calls of a trace
Made(trace) == {trace[k].sc : k \in 1..Len(trace)}

\* lines 131-137 copying host and port whatever the bits of flags
merge_bind_addr_no_mask(flags, remote) ==
  IF flags /= 0
  THEN [host |-> remote[1].host, port |-> remote[1].port]
  ELSE [host |-> -1, port |-> -1]

\* lines 131-137: bind_addr, zeroed and merged from <remote> when flags is
\* set; not initialised otherwise
merge_bind_addr(flags, remote) ==
  IF flags /= 0
  THEN [host |-> IF BitAnd(flags, 1) /= 0 THEN remote[1].host ELSE 0,
        port |-> IF BitAnd(flags, 2) /= 0 THEN remote[1].port ELSE 0]
  ELSE [host |-> -1, port |-> -1]

\* the members of <remote> lines 133-136 read
remote_reads(flags) ==
  (IF BitAnd(flags, 1) /= 0 THEN {"sin_addr"} ELSE {})
  \cup (IF BitAnd(flags, 2) /= 0 THEN {"sin_port"} ELSE {})

\* line 123 without the test of flags
asks_transparent_any_flags(flags) ==
  build.LINUX_TPROXY /\ ip_transp_working /= 0

\* line 123 without the test of ip_transp_working
asks_transparent_retry(flags) ==
  build.LINUX_TPROXY /\ flags /= 0

\* lines 121-130: whether the transparent capability is asked for
asks_transparent(flags) ==
  build.LINUX_TPROXY /\ flags /= 0 /\ ip_transp_working /= 0

\* lines 154-172: the cttproxy fallback; TRUE when both setsockopt succeed
cttproxy_calls(bind_addr, o) ==
  IF ~Ok(o, "TPROXY_ASSIGN") THEN <<ScA("TPROXY_ASSIGN", FALSE, bind_addr)>>
  ELSE <<ScA("TPROXY_ASSIGN", TRUE, bind_addr),
         Sc("TPROXY_FLAGS", Ok(o, "TPROXY_FLAGS"))>>

\* the value returned when the local address could not be bound
RetLocalFailed == 1

\* one failure value for both failures
RetForeignAsLocal == RetLocalFailed

\* the value returned when the foreign address could not be bound
RetForeignFailed == 2

\* tcpv4_bind_socket(fd, flags, local, remote) under the outcome o: the value
\* returned, the calls made, ip_transp_working as left, the members of
\* <remote> read
tcpv4_bind_socket(flags, local, remote, o) ==
  LET asks == asks_transparent(flags)
      got == asks /\ (Ok(o, "IP_TRANSPARENT") \/ Ok(o, "IP_FREEBIND"))
      t1 == IF ~asks THEN <<>>
            ELSE IF Ok(o, "IP_TRANSPARENT") THEN <<Sc("IP_TRANSPARENT", TRUE)>>
            ELSE <<Sc("IP_TRANSPARENT", FALSE), Sc("IP_FREEBIND", Ok(o, "IP_FREEBIND"))>>
      working == IF asks /\ ~got THEN 0 ELSE ip_transp_working
      bind_addr == merge_bind_addr(flags, remote)
      t2 == Append(t1, Sc("SO_REUSEADDR", Ok(o, "SO_REUSEADDR")))
      t3 == Append(t2, ScA("bind", Ok(o, "bind"), IF got THEN bind_addr ELSE local))
      res(ret, trace) == [ret |-> ret, trace |-> trace, working |-> working,
                          reads |-> remote_reads(flags)]
  IN
  IF ~Ok(o, "bind") THEN res(IF got THEN RetForeignFailed ELSE RetLocalFailed, t3)
  ELSE IF flags = 0 THEN res(0, t3)
  ELSE IF got THEN res(0, t3)
  ELSE IF ~build.CTTPROXY THEN res(RetForeignFailed, t3)
  ELSE IF Ok(o, "TPROXY_ASSIGN") /\ Ok(o, "TPROXY_FLAGS")
       THEN res(0, t3 \o cttproxy_calls(bind_addr, o))
       ELSE res(RetForeignFailed, t3 \o cttproxy_calls(bind_addr, o))

\* the sets of failing calls tried: IP_FREEBIND only fails after
\* IP_TRANSPARENT did, TPROXY_FLAGS is only made after TPROXY_ASSIGN succeeded
SockFailingSets ==
  {a \cup b \cup c : a \in {{}, {"IP_TRANSPARENT"}, {"IP_TRANSPARENT", "IP_FREEBIND"}},
                     b \in {{}, {"SO_REUSEADDR"}},
                     c \in {{}, {"bind"}, {"TPROXY_ASSIGN"}, {"TPROXY_FLAGS"}}}

\* a call of tcpv4_bind_socket on a fresh socket with the configured
\* addresses; <remote> may be NULL only when flags is 0 (line 103); only the
\* calls that are made can fail
BindSocket(flags) ==
  /\ flags = 0 \/ fb_remote /= <<>>
  /\ \E f \in SockFailingSets :
       \E r \in {tcpv4_bind_socket(flags, fb_local, fb_remote, [failing |-> f])} :
         /\ f \subseteq Made(r.trace)
         /\ ip_transp_working' = r.working
         /\ call' = [op |-> "bind_socket", flags |-> flags, ret |-> r.ret,
                     reads |-> r.reads, pre_working |-> ip_transp_working]
         /\ sys' = r.trace
  /\ UNCHANGED <<li_state, li_fd, li_proto, li_options, listeners, nb_listeners,
                 open_fds, fdtab, errbuf, build, ba, fb_local, fb_remote,
                 curpx, parsed, sess>>

Next ==
  \/ \E l \in Listeners : tcpv4_add_listener(l)
  \/ \E l \in Listeners : tcpv6_add_listener(l)
  \/ \E l \in Listeners : Bind(l)
  \/ \E p \in Protos : BindAllCall(p)
  \/ BindAllIter

Spec == Init /\ [][Next]_vars

\* one listener of the tcpv4 family, its calls traced
NextSys ==
  \/ tcpv4_add_listener(1)
  \/ BindTraced

SpecSys == InitSys /\ [][NextSys]_vars

\* the calls of tcpv4_bind_socket of one process, for one configured pair of
\* addresses and every build
InitSock ==
  /\ InitRegistry
  /\ InitProxy
  /\ li_options = [l \in Listeners |-> 0]
  /\ build \in {b \in Builds : b.SO_REUSEPORT = FALSE}
  /\ fb_local \in Addrs
  /\ fb_remote \in {<<>>} \cup {<<a>> : a \in Addrs}

NextSock == \E flags \in 0..3 : BindSocket(flags)

SpecSock == InitSock /\ [][NextSock]_vars

(* ------------------------------------------------------------------ *)
(* tcp_parse_tcp_req: the "tcp-request" keyword                        *)
(* ------------------------------------------------------------------ *)

\* the lines of one section the parser is given, at most
MaxDirectives == 2

\* the request buffer holds at most this many bytes
MaxReqLen == 2

TCP_ACT_ACCEPT == "TCP_ACT_ACCEPT"

TCP_ACT_REJECT == "TCP_ACT_REJECT"

ACL_COND_NONE == "ACL_COND_NONE"

ACL_COND_IF == "ACL_COND_IF"

ACL_COND_UNLESS == "ACL_COND_UNLESS"

\* the characters '0'..'9'
Digits == <<"0", "1", "2", "3", "4", "5", "6", "7", "8", "9">>

IsDigit(c) == \E d \in 1..10 : Digits[d] = c

\* *text - '0'
DigitVal(c) == (CHOOSE d \in 1..10 : Digits[d] = c) - 1

\* the leading digits of text read as a decimal number, and what follows
RECURSIVE read_digits(_, _)
read_digits(text, value) ==
  IF text /= "" /\ IsDigit(Head(text))
  THEN read_digits(Tail(text), value * 10 + DigitVal(Head(text)))
  ELSE [val |-> value, rest |-> text]

\* parse_time_err(text, &val, TIME_UNIT_MS): digits and an optional unit
\* (us, ms, s, m, h, d); ptr is <<>> (NULL) when the text parses and <<c>>,
\* the first unexpected character, when it does not
parse_time_err(text) ==
  LET r == read_digits(text, 0)
      u == r.rest
      ok(v) == [ptr |-> <<>>, val |-> v]
      bad == [ptr |-> <<Head(u)>>, val |-> 0]
  IN IF u = "" THEN ok(r.val)
     ELSE IF Head(u) = "s" THEN ok(r.val * 1000)
     ELSE IF Head(u) = "u"
          THEN IF Tail(u) /= "" /\ Head(Tail(u)) = "s" THEN ok(r.val \div 1000) ELSE bad
     ELSE IF Head(u) = "m"
          THEN IF Tail(u) /= "" /\ Head(Tail(u)) = "s" THEN ok(r.val) ELSE ok(r.val * 60000)
     ELSE IF Head(u) = "h" THEN ok(r.val * 3600000)
     ELSE IF Head(u) = "d" THEN ok(r.val * 86400000)
     ELSE bad

\* the ACLs declared in the section: "req_len_ge_<n>" is req_len ge n, the
\* keyword this file registers (acl_kws)
AclName(n) == "req_len_ge_" \o ToString(n)

DeclaredAcls == {AclName(n) : n \in 1..MaxReqLen}

\* struct acl_cond *cond = NULL
NoCond == [null |-> TRUE]

\* parse_acl_cond(args+4, &curpx->acl, pol): the compiled condition, or
\* NULL when the tokens name no declared ACL
parse_acl_cond(tokens, pol) ==
  IF tokens \in DeclaredAcls
  THEN [pol |-> pol, kw |-> "req_len",
        min |-> CHOOSE n \in 1..MaxReqLen : AclName(n) = tokens]
  ELSE NoCond

\* proxy_type_str(px)
proxy_type_str(px) == IF px.cap_fe THEN "frontend" ELSE "backend"

\* snprintf(err, errlen, ...): the text cut to errlen - 1 characters
snprintf(errlen, text) == strlcpy2(text, errlen)

\* args[k] of the line, args[0] being the keyword
Arg(args, k) == args[k + 1]

\* what the handler returns: the code, the message left in err, the proxy
Parsed(ret, err, px) == [ret |-> ret, err |-> err, px |-> px]

\* " in <type> '<id>'" of the messages; <proxy>, the head of the list of
\* proxies, is the section being parsed
InSection(px) == " in " \o proxy_type_str(px) \o " '" \o px.id \o "'"

\* lines 364-372: the message of a missing or bad delay, with the character
\* that stopped the parser when there is one and room for it
delay_message(args, px, ptr, errlen) ==
  LET text == "'" \o Arg(args, 0) \o " " \o Arg(args, 1)
                \o "' expects a positive delay in milliseconds," \o InSection(px)
      retlen == Len(text)
  IN IF ptr /= <<>> /\ retlen < errlen
     THEN text \o snprintf(errlen - retlen, " (unexpected character '" \o ptr[1] \o "')")
     ELSE snprintf(errlen, text)

\* line 374: if (curpx->tcp_req.inspect_delay), "was already defined"
delay_already_defined(px) == px.tcp_req.inspect_delay /= 0

\* lines 350-381: tcp-request inspect-delay <duration>
parse_inspect_delay(args, px, errlen) ==
  LET t == parse_time_err(Arg(args, 2))
  IN
  IF px.defaults
  THEN Parsed(-1, snprintf(errlen, Arg(args, 0) \o " " \o Arg(args, 1)
                             \o " is not allowed in 'defaults' sections"), px)
  ELSE IF ~px.cap_fe
  THEN Parsed(1, snprintf(errlen, Arg(args, 0) \o " " \o Arg(args, 1)
                            \o " will be ignored because " \o proxy_type_str(px)
                            \o " '" \o px.id \o "' has no frontend capability"), px)
  ELSE IF Arg(args, 2) = ""
  THEN Parsed(-1, delay_message(args, px, <<>>, errlen), px)
  ELSE IF t.ptr /= <<>>
  THEN Parsed(-1, delay_message(args, px, t.ptr, errlen), px)
  ELSE IF delay_already_defined(px)
  THEN Parsed(1, snprintf(errlen, "ignoring " \o Arg(args, 0) \o " " \o Arg(args, 1)
                            \o " (was already defined)" \o InSection(px)), px)
  ELSE Parsed(0, errbuf, [px EXCEPT !.tcp_req.inspect_delay = t.val])

\* LIST_ADD: the entry put at the head of the list
LIST_ADD(list, e) == <<e>> \o list

\* line 427: LIST_ADDQ, the entry put at the tail of the list
LIST_ADDQ(list, e) == Append(list, e)

\* lines 409-412: the policy args[3] names, ACL_COND_NONE for any other token
cond_pol(token) ==
  IF token = "if" THEN ACL_COND_IF
  ELSE IF token = "unless" THEN ACL_COND_UNLESS
  ELSE ACL_COND_NONE

\* lines 383-429: tcp-request content {accept|reject} [{if|unless} <cond>]
parse_content(args, px, errlen) ==
  LET pol == cond_pol(Arg(args, 3))
      cond == IF pol /= ACL_COND_NONE THEN parse_acl_cond(Arg(args, 4), pol) ELSE NoCond
      action == IF Arg(args, 2) = "accept" THEN TCP_ACT_ACCEPT ELSE TCP_ACT_REJECT
      rule == [cond |-> cond, action |-> action]
  IN
  IF px.defaults
  THEN Parsed(-1, snprintf(errlen, Arg(args, 0) \o " " \o Arg(args, 1)
                             \o " is not allowed in 'defaults' sections"), px)
  ELSE IF Arg(args, 2) \notin {"accept", "reject"}
  THEN Parsed(-1, snprintf(errlen, "'" \o Arg(args, 0) \o " " \o Arg(args, 1)
                             \o "' expects 'accept' or 'reject'," \o InSection(px)
                             \o " (was '" \o Arg(args, 2) \o "')"), px)
  ELSE IF pol /= ACL_COND_NONE /\ cond = NoCond
  THEN Parsed(-1, snprintf(errlen, "Error detected" \o InSection(px)
                             \o " while parsing '" \o Arg(args, 3) \o "' condition"), px)
  ELSE Parsed(0, errbuf,
              [px EXCEPT !.tcp_req.inspect_rules = LIST_ADDQ(@, rule)])

\* tcp_parse_tcp_req(args, section_type, curpx, defpx, err, errlen)
tcp_parse_tcp_req(args, px, errlen) ==
  IF Arg(args, 1) = ""
  THEN Parsed(-1, snprintf(errlen, "missing argument for '" \o Arg(args, 0) \o "'"
                             \o InSection(px)), px)
  ELSE IF Arg(args, 1) = "inspect-delay" THEN parse_inspect_delay(args, px, errlen)
  ELSE IF Arg(args, 1) = "content" THEN parse_content(args, px, errlen)
  ELSE Parsed(-1, snprintf(errlen, "unknown argument '" \o Arg(args, 1) \o "' after '"
                             \o Arg(args, 0) \o "'" \o InSection(px)), px)

\* a line of the configuration as the parser splits it: the tokens after the
\* last one given are empty strings
Line(a1, a2, a3, a4) == <<"tcp-request", a1, a2, a3, a4>>

DelayTokens == {"", "0", "2", "3ms", "1x"}

ActionTokens == {"accept", "reject", "drop"}

CondTokens == DeclaredAcls \cup {"undeclared"}

\* the tcp-request lines tried
ArgLines ==
  {Line("", "", "", ""), Line("bogus", "", "", "")}
  \cup {Line("inspect-delay", d, "", "") : d \in DelayTokens}
  \cup {Line("content", "", "", "")}
  \cup {Line("content", a, "", "") : a \in ActionTokens}
  \cup {Line("content", a, p, c) : a \in ActionTokens, p \in {"if", "unless"}, c \in CondTokens}
  \cup {Line("content", a, "when", AclName(1)) : a \in ActionTokens}

\* the parser calls the handler for a tcp-request line of the section
ParseTcpReq(args) ==
  /\ sess = NoSession
  /\ call.op = "none" \/ (call.op = "parse" /\ call.n < MaxDirectives)
  /\ \E r \in {tcp_parse_tcp_req(args, curpx, LongLen)} :
       /\ curpx' = r.px
       /\ errbuf' = r.err
       /\ parsed' = IF r.ret = 0 THEN Append(parsed, args) ELSE parsed
       /\ call' = [op |-> "parse", args |-> args, ret |-> r.ret,
                   n |-> IF call.op = "parse" THEN call.n + 1 ELSE 1]
  /\ UNCHANGED <<li_state, li_fd, li_proto, li_options, listeners, nb_listeners,
                 open_fds, fdtab, ip_transp_working, build, ba, fb_local, fb_remote,
                 sys, sess>>

(* ------------------------------------------------------------------ *)
(* The inspection of a session: rule evaluation and its scheduler      *)
(* ------------------------------------------------------------------ *)

\* l4->req when the session has no request buffer
NoBuffer == [null |-> TRUE]

\* acl_fetch_req_len(px, l4, l7, dir, expr, test): ret is what it returns,
\* i and flags what it leaves in test
acl_fetch_req_len(l4) ==
  IF l4 = NoSession \/ l4.req = NoBuffer
  THEN [ret |-> 0]
  ELSE [ret |-> 1, i |-> l4.req.l,
        flags |-> {"ACL_TEST_F_VOLATILE", "ACL_TEST_F_MAY_CHANGE"}]

\* the condition evaluator on req_len ge min: TRUE once enough bytes are
\* buffered, INDETERMINATE while the value may still change and more bytes
\* can arrive, FALSE otherwise
acl_exec_cond(cond, l4) ==
  LET t == acl_fetch_req_len(l4)
  IN IF t.ret = 0 THEN "FALSE"
     ELSE IF t.i >= cond.min THEN "TRUE"
     ELSE IF "ACL_TEST_F_MAY_CHANGE" \in t.flags /\ ~l4.req.closed THEN "INDETERMINATE"
     ELSE "FALSE"

\* the decision a rule's action stands for
Decision(action) == IF action = TCP_ACT_REJECT THEN "REJECT" ELSE "ACCEPT"

\* evaluate(rules, context) from rule k on: the first rule without a guard,
\* or whose guard is met, decides; an indeterminate guard leaves the list
\* undecided; the end of the list accepts
RECURSIVE evaluate_from(_, _, _)
evaluate_from(rules, k, l4) ==
  IF k > Len(rules) THEN "ACCEPT"
  ELSE IF rules[k].cond = NoCond THEN Decision(rules[k].action)
  ELSE LET v == acl_exec_cond(rules[k].cond, l4)
       IN IF v = "INDETERMINATE" THEN "UNDECIDED"
          ELSE IF \/ rules[k].cond.pol = ACL_COND_IF /\ v = "TRUE"
                  \/ rules[k].cond.pol = ACL_COND_UNLESS /\ v = "FALSE"
          THEN Decision(rules[k].action)
          ELSE evaluate_from(rules, k + 1, l4)

\* every evaluation starts at the first rule of the list
RestartAt(s) == 1

\* the scheduler keeping on after its state left WAITING
still_waiting_any(s) == TRUE

\* the scheduler evaluates only while WAITING
still_waiting(s) == s.state = "WAITING"

\* one evaluation of the rule list for session s by the scheduler
inspect(s) ==
  LET from == RestartAt(s)
      d == evaluate_from(curpx.tcp_req.inspect_rules, from, s)
  IN [s EXCEPT !.evals = @ + 1, !.started = from, !.last = d,
               !.state = IF d = "UNDECIDED" THEN "WAITING" ELSE "DECIDED",
               !.decisions = IF d = "UNDECIDED" THEN @ ELSE Append(@, d)]

\* the delay elapsed with the list undecided: the decision is forced
expire(s) ==
  [s EXCEPT !.state = "TIMED_OUT", !.decisions = Append(@, "ACCEPT")]

\* a connection is accepted on the frontend with n bytes already there and
\* handed to the scheduler: the rules are evaluated at once, and with no
\* delay configured there is no wait
SessionAccept(n, closed) ==
  /\ sess = NoSession
  /\ ~curpx.defaults /\ curpx.cap_fe
  /\ \E s \in {inspect([state |-> "WAITING", req |-> [l |-> n, closed |-> closed],
                       now |-> 0, deadline |-> curpx.tcp_req.inspect_delay,
                       decisions |-> <<>>, evals |-> 0, started |-> 0,
                       last |-> "NONE"])} :
       sess' = IF s.state = "WAITING" /\ s.deadline = 0 THEN expire(s) ELSE s
  /\ call' = [op |-> "accept"]
  /\ UNCHANGED <<li_state, li_fd, li_proto, li_options, listeners, nb_listeners,
                 open_fds, fdtab, errbuf, ip_transp_working, build, ba,
                 fb_local, fb_remote, sys, curpx, parsed>>

\* n more bytes arrive, maybe the last ones: while WAITING the rules are
\* evaluated again, afterwards the bytes are only buffered
DataArrives(n, closed) ==
  /\ sess /= NoSession
  /\ ~sess.req.closed
  /\ sess.req.l + n <= MaxReqLen
  /\ \E s \in {[sess EXCEPT !.req = [l |-> @.l + n, closed |-> closed]]} :
       sess' = IF still_waiting(s) THEN inspect(s) ELSE s
  /\ call' = [op |-> "data"]
  /\ UNCHANGED <<li_state, li_fd, li_proto, li_options, listeners, nb_listeners,
                 open_fds, fdtab, errbuf, ip_transp_working, build, ba,
                 fb_local, fb_remote, sys, curpx, parsed>>

\* a millisecond of the delay passes
Tick ==
  /\ sess /= NoSession
  /\ sess.state = "WAITING"
  /\ sess.now < sess.deadline
  /\ sess' = [sess EXCEPT !.now = @ + 1]
  /\ call' = [op |-> "tick"]
  /\ UNCHANGED <<li_state, li_fd, li_proto, li_options, listeners, nb_listeners,
                 open_fds, fdtab, errbuf, ip_transp_working, build, ba,
                 fb_local, fb_remote, sys, curpx, parsed>>

\* the timer of the delay fires
Expire ==
  /\ sess /= NoSession
  /\ sess.state = "WAITING"
  /\ sess.now = sess.deadline
  /\ sess' = expire(sess)
  /\ call' = [op |-> "expire"]
  /\ UNCHANGED <<li_state, li_fd, li_proto, li_options, listeners, nb_listeners,
                 open_fds, fdtab, errbuf, ip_transp_working, build, ba,
                 fb_local, fb_remote, sys, curpx, parsed>>

\* one section of the configuration of every kind, no listener bound
InitTcpReq ==
  /\ InitRegistry
  /\ li_options = [l \in Listeners |-> 0]
  /\ build = [LINUX_TPROXY |-> FALSE, CTTPROXY |-> FALSE, SO_REUSEPORT |-> FALSE]
  /\ fb_local = ZeroAddr
  /\ fb_remote = <<>>
  /\ curpx \in {Px(TRUE, TRUE), Px(FALSE, TRUE), Px(FALSE, FALSE)}
  /\ parsed = <<>>
  /\ sess = NoSession

NextTcpReq ==
  \/ \E args \in ArgLines : ParseTcpReq(args)
  \/ \E n \in 0..MaxReqLen, closed \in BOOLEAN : SessionAccept(n, closed)
  \/ \E n \in 1..MaxReqLen, closed \in BOOLEAN : DataArrives(n, closed)
  \/ Tick
  \/ Expire

\* the section is parsed, then a connection is accepted and inspected
SpecTcpReq == InitTcpReq /\ [][NextTcpReq]_vars

\* the same with the clock and the timer of the event layer running
SpecInspect == SpecTcpReq /\ WF_vars(Tick) /\ WF_vars(Expire)

(* ------------------------------------------------------------------ *)
(* Properties                                                          *)
(* ------------------------------------------------------------------ *)

HasFlag(code, flag) == BitAnd(code, flag) /= 0

ErrFlags == {ERR_RETRYABLE, ERR_FATAL, ERR_ABORT, ERR_WARN, ERR_ALERT}

\* the flags of an error code, as a set
Flags(code) == {f \in ErrFlags : HasFlag(code, f)}

\* the traced call named n was made and failed
Failed(n) == \E k \in 1..Len(sys) : sys[k].sc = n /\ ~sys[k].ok

\* the last call was tcp_bind_listener on a listener that was LI_ASSIGNED
BoundAssigned == call.op = "bind" /\ call.pre_state = LI_ASSIGNED

\* tcp_bind_listeners has returned
BatchDone == ba.pc = "done"

\* C1: when the k-th listener bound by tcp_bind_listeners returns a code
\* with ERR_ABORT, the listeners attempted are exactly the first k of the
\* family (none after it is attempted) and the code returned has ERR_ABORT.
C1_AbortStopsBatch ==
  BatchDone =>
    \A k \in 1..Len(ba.codes) :
      HasFlag(ba.codes[k], ERR_ABORT) =>
        /\ ba.attempted = SubSeq(listeners[ba.proto], 1, k)
        /\ \A j \in (k + 1)..Len(listeners[ba.proto]) :
             li_state[listeners[ba.proto][j]] = LI_ASSIGNED
        /\ HasFlag(ba.err, ERR_ABORT)

\* C2: once socket() has succeeded in tcp_bind_listener, the descriptor is
\* either stored on the listener, which is then LI_LISTEN, and not closed,
\* or closed exactly once; no call returns ERR_RETRYABLE or ERR_FATAL with
\* the descriptor open, and none closes it twice.
C2_HandleStoredOrClosedOnce ==
  (call.op = "bind" /\ call.fd /= -1) =>
    /\ \/ /\ li_state[call.l] = LI_LISTEN
          /\ li_fd[call.l] = call.fd
          /\ Closes(sys) = 0
          /\ call.fd \in open_fds
       \/ /\ li_state[call.l] = LI_ASSIGNED
          /\ li_fd[call.l] = -1
          /\ Closes(sys) = 1
          /\ call.fd \notin open_fds
    /\ (HasFlag(call.ret, ERR_RETRYABLE) \/ HasFlag(call.ret, ERR_FATAL))
         => call.fd \notin open_fds

C2_Witness ==
  /\ call.op = "bind"
  /\ call.fd /= -1
  /\ HasFlag(call.ret, ERR_RETRYABLE)
  /\ Failed("listen")
  /\ Closes(sys) = 1

\* what a call of tcp_bind_listener on a LI_LISTEN listener leaves alone
BindOnListenFrame ==
  /\ call'.ret = ERR_NONE
  /\ sys' = <<>>
  /\ UNCHANGED <<li_state, li_fd, li_proto, listeners, nb_listeners, open_fds, fdtab>>

\* C3 as claimed: tcp_bind_listener on a listener in LI_LISTEN returns
\* ERR_NONE, makes no system call, changes neither the listener nor fdtab,
\* and leaves the caller's message buffer untouched.
C3_ListenBindTouchesNothing ==
  [][(call'.op = "bind" /\ li_state[call'.l] = LI_LISTEN)
       => (BindOnListenFrame /\ errbuf' = errbuf)]_vars

\* C3 as amended: tcp_bind_listener on a listener in LI_LISTEN returns
\* ERR_NONE, makes no system call and changes neither the listener nor
\* fdtab; the message buffer is untouched when it is absent or of length 0
\* and is set to the empty string otherwise.
C3_ListenBindClearsMessage ==
  [][(call'.op = "bind" /\ li_state[call'.l] = LI_LISTEN)
       => /\ BindOnListenFrame
          /\ errbuf' = IF call'.errmsg /= "NULL" /\ call'.errlen /= 0
                       THEN "" ELSE errbuf]_vars

C3_Witness ==
  /\ call.op = "bind"
  /\ call.pre_state = LI_LISTEN
  /\ call.errlen /= 0
  /\ call.pre_msg
  /\ li_options[call.l] = 3
  /\ errbuf = ""

\* C4: a call of tcpv4_add_listener or tcpv6_add_listener changes no
\* listener that is not LI_INIT (state and proto kept) and, when its own
\* listener is not LI_INIT, no registry either; on a LI_INIT listener it
\* makes it LI_ASSIGNED, appends it to the family's list and adds one to
\* that family's nb_listeners, the other family unchanged.
C4_AddOnlyFromInit ==
  [][call'.op = "add" =>
       /\ \A m \in Listeners :
            li_state[m] /= LI_INIT =>
              li_state'[m] = li_state[m] /\ li_proto'[m] = li_proto[m]
       /\ li_state[call'.l] /= LI_INIT =>
            listeners' = listeners /\ nb_listeners' = nb_listeners
       /\ li_state[call'.l] = LI_INIT =>
            /\ li_state'[call'.l] = LI_ASSIGNED
            /\ listeners'[call'.proto] = Append(listeners[call'.proto], call'.l)
            /\ nb_listeners'[call'.proto] = nb_listeners[call'.proto] + 1
            /\ \A q \in Protos \ {call'.proto} :
                 listeners'[q] = listeners[q] /\ nb_listeners'[q] = nb_listeners[q]]_vars

C4_Witness ==
  /\ call.op = "add"
  /\ call.pre_state = LI_LISTEN
  /\ call.proto /= li_proto[call.l]
  /\ \E m \in Listeners : li_state[m] = LI_ASSIGNED

\* the number of places listener l takes in the registries
Places(l) ==
  Cardinality({<<p, k>> \in Protos \X (1..NListeners) :
                 k <= Len(listeners[p]) /\ listeners[p][k] = l})

\* C5: every listener is at most once in at most one registry, it is in
\* the registry its proto names and in none while proto is unset, and each
\* family's nb_listeners is the length of its list.
C5_RegistryConsistent ==
  /\ \A l \in Listeners : Places(l) <= 1
  /\ \A p \in Protos : \A k \in 1..Len(listeners[p]) : li_proto[listeners[p][k]] = p
  /\ \A l \in Listeners : li_proto[l] = "NULL" => Places(l) = 0
  /\ \A p \in Protos : nb_listeners[p] = Len(listeners[p])

C5_Witness ==
  /\ nb_listeners["tcpv4"] = 1
  /\ nb_listeners["tcpv6"] = 1
  /\ BatchDone
  /\ \E l \in Listeners : li_state[l] = LI_LISTEN
  /\ \E l \in Listeners : li_state[l] = LI_ASSIGNED

\* C6: on a LI_ASSIGNED listener a failed socket() gives exactly
\* RETRYABLE|ALERT, a descriptor beyond the fd table FATAL|ABORT|ALERT, a
\* failed fcntl or TCP_NODELAY FATAL|ALERT, a failed bind or listen
\* RETRYABLE|ALERT, whatever the best-effort calls did before; ERR_ABORT is
\* set in no other case.
C6_FailureClasses ==
  BoundAssigned =>
    /\ Failed("socket") => Flags(call.ret) = {ERR_RETRYABLE, ERR_ALERT}
    /\ call.fd >= MaxSock => Flags(call.ret) = {ERR_FATAL, ERR_ABORT, ERR_ALERT}
    /\ (Failed("fcntl") \/ Failed("TCP_NODELAY"))
         => Flags(call.ret) = {ERR_FATAL, ERR_ALERT}
    /\ Failed("bind") => Flags(call.ret) = {ERR_RETRYABLE, ERR_ALERT}
    /\ Failed("listen") => Flags(call.ret) = {ERR_RETRYABLE, ERR_ALERT}
    /\ HasFlag(call.ret, ERR_ABORT) => call.fd >= MaxSock

C6_Witness ==
  /\ BoundAssigned
  /\ Failed("SO_REUSEADDR")
  /\ Failed("IP_FREEBIND")
  /\ Failed("bind")
  /\ Flags(call.ret) = {ERR_RETRYABLE, ERR_ALERT}

\* one of the best-effort options the claim names failed
BestEffortFailed ==
  Failed("SO_REUSEADDR") \/ Failed("SO_REUSEPORT") \/ Failed("SO_LINGER")

\* C7 as claimed: a failed SO_REUSEADDR, SO_REUSEPORT or SO_LINGER sets
\* ERR_ALERT; the bind goes on, and when bind and listen succeed the listener
\* is LI_LISTEN and the code is exactly ERR_ALERT.
C7_BestEffortAlerts ==
  (BoundAssigned /\ BestEffortFailed) =>
    /\ HasFlag(call.ret, ERR_ALERT)
    /\ "bind" \in Made(sys)
    /\ (~Failed("bind") /\ ~Failed("listen")) =>
         li_state[call.l] = LI_LISTEN /\ Flags(call.ret) = {ERR_ALERT}

\* C7 as amended: a failed SO_REUSEADDR sets ERR_ALERT, a failed
\* SO_REUSEPORT or SO_LINGER sets no flag; the bind goes on in every case,
\* and when bind and listen succeed the listener is LI_LISTEN and the code is
\* exactly ERR_ALERT if SO_REUSEADDR (or both IP_TRANSPARENT and
\* IP_FREEBIND) failed and ERR_NONE otherwise.
C7_OnlyReuseaddrAlerts ==
  (BoundAssigned /\ BestEffortFailed) =>
    /\ Failed("SO_REUSEADDR") => HasFlag(call.ret, ERR_ALERT)
    /\ "bind" \in Made(sys)
    /\ (~Failed("bind") /\ ~Failed("listen")) =>
         /\ li_state[call.l] = LI_LISTEN
         /\ Flags(call.ret) = IF Failed("SO_REUSEADDR") \/ Failed("IP_FREEBIND")
                              THEN {ERR_ALERT} ELSE {}

C7_Witness ==
  /\ BoundAssigned
  /\ Failed("SO_REUSEADDR")
  /\ Failed("SO_LINGER")
  /\ Failed("SO_REUSEPORT")
  /\ li_state[call.l] = LI_LISTEN
  /\ Flags(call.ret) = {ERR_ALERT}

\* C8: when no listener bound by tcp_bind_listeners returned ERR_ABORT, the
\* listeners attempted are the whole list of the family, each once and in
\* list order, and the code returned has exactly the flags the listeners'
\* codes have: none is dropped, none is added.
C8_NoAbortBindsAll ==
  (BatchDone /\ \A k \in 1..Len(ba.codes) : ~HasFlag(ba.codes[k], ERR_ABORT)) =>
    /\ ba.attempted = listeners[ba.proto]
    /\ Len(ba.codes) = Len(ba.attempted)
    /\ \A f \in ErrFlags :
         HasFlag(ba.err, f) <=> \E k \in 1..Len(ba.codes) : HasFlag(ba.codes[k], f)

C8_Witness ==
  /\ BatchDone
  /\ Len(ba.codes) = 2
  /\ Flags(ba.codes[1]) = {ERR_FATAL, ERR_ALERT}
  /\ ba.codes[2] = ERR_NONE
  /\ li_state[ba.attempted[2]] = LI_LISTEN
  /\ Flags(ba.err) = {ERR_FATAL, ERR_ALERT}

\* the last call was tcpv4_bind_socket with these flags
SocketBound(flags) == call.op = "bind_socket" /\ call.flags = flags

\* C9: with flags 0 tcpv4_bind_socket makes the calls of a plain bind of
\* <local> (SO_REUSEADDR, then bind(local)) whatever <remote> is, NULL
\* included: <remote> is not read, ip_transp_working is neither used for a
\* call nor changed, and the result is 0 when the bind succeeds and 1 when
\* it fails.
C9_NoFlagsPlainLocalBind ==
  SocketBound(0) =>
    /\ Len(sys) = 2
    /\ sys[1].sc = "SO_REUSEADDR"
    /\ sys[2].sc = "bind" /\ sys[2].arg = fb_local
    /\ call.reads = {}
    /\ ip_transp_working = call.pre_working
    /\ call.ret = IF sys[2].ok THEN 0 ELSE 1

C9_Witness ==
  /\ SocketBound(0)
  /\ fb_remote = <<>>
  /\ build.LINUX_TPROXY /\ build.CTTPROXY
  /\ call.pre_working = 1
  /\ call.ret = 0

\* the transparent capability was not available to the last call: not
\* compiled in, its flag cleared before, or the request refused
NoTransparent ==
  \/ ~build.LINUX_TPROXY
  \/ call.pre_working = 0
  \/ Failed("IP_FREEBIND")

\* the cttproxy annotation was made and succeeded
Annotated ==
  /\ \E k \in 1..Len(sys) : sys[k].sc = "TPROXY_ASSIGN" /\ sys[k].ok
  /\ \E k \in 1..Len(sys) : sys[k].sc = "TPROXY_FLAGS" /\ sys[k].ok

\* <local> is what the last call gave bind()
LocalBound == \E k \in 1..Len(sys) : sys[k].sc = "bind" /\ sys[k].arg = fb_local

\* C10 as claimed: with flags 3 and no transparent capability
\* tcpv4_bind_socket binds <local> and annotates the socket; it returns 0
\* only if both succeed, and 2 if that path fails.
C10_FallbackFailsWithTwo ==
  (SocketBound(3) /\ NoTransparent) =>
    /\ LocalBound
    /\ call.ret = 0 <=> (~Failed("bind") /\ Annotated)
    /\ call.ret /= 0 => call.ret = 2

\* C10 as amended: with flags 3 and no transparent capability
\* tcpv4_bind_socket binds <local> and annotates the socket; it returns 0
\* only if both succeed, 1 if the bind of <local> fails, and 2 if <local>
\* is bound but the annotation fails or is not compiled in.
C10_FallbackKeepsBothCodes ==
  (SocketBound(3) /\ NoTransparent) =>
    /\ LocalBound
    /\ call.ret = 0 <=> (~Failed("bind") /\ Annotated)
    /\ Failed("bind") => call.ret = 1
    /\ (~Failed("bind") /\ ~Annotated) => call.ret = 2

C10_Witness ==
  /\ SocketBound(3)
  /\ build.LINUX_TPROXY /\ build.CTTPROXY
  /\ call.pre_working = 1
  /\ Failed("IP_FREEBIND")
  /\ Failed("TPROXY_FLAGS")
  /\ call.ret = 2

\* fdtab[f] as the ready block of tcp_bind_listener leaves it for listener l
Registered(l, f) ==
  fdtab[f] = [owner |-> l, cb_rd |-> li_accept(l), cb_wr |-> "NULL",
              state |-> "FD_STLISTEN"]

\* the entries of fdtab owned by listener l
OwnedBy(l) == {f \in Fds : fdtab[f].owner = l}

\* C11: a listener is LI_LISTEN exactly when fdtab holds its descriptor with
\* the listener's accept callback for reads, no callback for writes and the
\* listener as owner, and fdtab holds no other entry; an entry of fdtab is
\* written only once, from free, by the call of tcp_bind_listener that takes
\* its listener from LI_ASSIGNED to LI_LISTEN, so no repeated bind or batch
\* registers a listener again and a bind that fails registers nothing.
C11_RegisteredOnce ==
  /\ [](\A l \in Listeners :
          /\ li_state[l] = LI_LISTEN <=> (li_fd[l] \in Fds /\ Registered(l, li_fd[l]))
          /\ OwnedBy(l) = IF li_state[l] = LI_LISTEN THEN {li_fd[l]} ELSE {})
  /\ [](\A f \in Fds : fdtab[f] /= FdFree => \E l \in Listeners : Registered(l, f))
  /\ [][\A f \in Fds :
          fdtab'[f] /= fdtab[f] =>
            /\ fdtab[f] = FdFree
            /\ call'.op = "bind"
            /\ call'.fd = f
            /\ li_state[call'.l] = LI_ASSIGNED
            /\ li_state'[call'.l] = LI_LISTEN
            /\ ~HasFlag(call'.ret, ERR_RETRYABLE)
            /\ ~HasFlag(call'.ret, ERR_FATAL)
            /\ fdtab'[f] = [owner |-> call'.l, cb_rd |-> li_accept(call'.l),
                            cb_wr |-> "NULL", state |-> "FD_STLISTEN"]]_vars

C11_Witness ==
  /\ call.op = "bind"
  /\ call.pre_state = LI_LISTEN
  /\ \A l \in Listeners : li_state[l] = LI_LISTEN /\ Registered(l, li_fd[l])
  /\ \E l, m \in Listeners : li_fd[l] /= li_fd[m]
  /\ \E l, m \in Listeners : li_proto[l] /= li_proto[m]

\* the tcp-request content lines that were accepted, in the order of the file
DeclaredRules == SelectSeq(parsed, LAMBDA a : Arg(a, 1) = "content")

\* the sessions a rule list may be evaluated for: none, one without a
\* request buffer, one with any number of bytes, more to come or not
Contexts ==
  {NoSession, [state |-> "WAITING", req |-> NoBuffer]}
  \cup {[state |-> "WAITING", req |-> [l |-> n, closed |-> c]] :
          n \in 0..MaxReqLen, c \in BOOLEAN}

\* what the guard "req_len ge n" of a declared line is in context x
GuardIs(a, x) ==
  LET n == CHOOSE k \in 1..MaxReqLen : AclName(k) = Arg(a, 4)
  IN IF x = NoSession \/ x.req = NoBuffer THEN "FALSE"
     ELSE IF x.req.l >= n THEN "TRUE"
     ELSE IF x.req.closed THEN "FALSE"
     ELSE "INDETERMINATE"

Guarded(a) == Arg(a, 3) \in {"if", "unless"}

\* the declared line fires in context x: no guard, or IF with a guard that
\* is TRUE, or UNLESS with one that is FALSE
Fires(a, x) ==
  \/ ~Guarded(a)
  \/ Arg(a, 3) = "if" /\ GuardIs(a, x) = "TRUE"
  \/ Arg(a, 3) = "unless" /\ GuardIs(a, x) = "FALSE"

Pending(a, x) == Guarded(a) /\ GuardIs(a, x) = "INDETERMINATE"

\* the decision the claim gives the lines declared, in context x
FirstMatch(x) ==
  LET D == DeclaredRules
      S == {k \in 1..Len(D) : Fires(D[k], x) \/ Pending(D[k], x)}
  IN IF S = {} THEN "ACCEPT"
     ELSE LET k == CHOOSE j \in S : \A i \in S : j <= i
          IN IF Pending(D[k], x) THEN "UNDECIDED"
             ELSE IF Arg(D[k], 2) = "accept" THEN "ACCEPT" ELSE "REJECT"

\* C12: in every context, evaluating the proxy's rule list gives the action
\* of the first declared line (in the order the accepted tcp-request content
\* lines came) that has no guard or whose guard is TRUE under if or FALSE
\* under unless; UNDECIDED when an INDETERMINATE guard comes before any such
\* line, whatever follows; ACCEPT when the list, empty or not, has neither.
\* The evaluation made when a connection is accepted gives that decision.
C12_FirstMatchInDeclarationOrder ==
  /\ Len(curpx.tcp_req.inspect_rules) = Len(DeclaredRules)
  /\ \A x \in Contexts :
       evaluate_from(curpx.tcp_req.inspect_rules, 1, x) = FirstMatch(x)
  /\ call.op = "accept" => sess.last = FirstMatch(sess)

C12_Witness ==
  /\ call.op = "accept"
  /\ sess.last = "UNDECIDED"
  /\ Len(DeclaredRules) = 2
  /\ Arg(DeclaredRules[1], 2) = "accept" /\ Arg(DeclaredRules[1], 3) = "unless"
  /\ Arg(DeclaredRules[2], 2) = "reject" /\ ~Guarded(DeclaredRules[2])
  /\ sess.decisions = <<"ACCEPT">>

\* a connection is being inspected
Inspecting == sess /= NoSession

\* the scheduler has its one decision, or none while it waits
OneDecision ==
  Inspecting =>
    /\ sess.state = "WAITING" => sess.decisions = <<>> /\ sess.last = "UNDECIDED"
    /\ sess.state = "DECIDED" =>
         sess.decisions = <<sess.last>> /\ sess.last \in {"ACCEPT", "REJECT"}
    /\ sess.state = "TIMED_OUT" =>
         /\ sess.decisions = <<"ACCEPT">>
         /\ sess.last = "UNDECIDED"
         /\ sess.now = sess.deadline

WellFormedDelay(args) ==
  /\ Arg(args, 1) = "inspect-delay"
  /\ Arg(args, 2) /= ""
  /\ parse_time_err(Arg(args, 2)).ptr = <<>>

\* the section is a proxy with the frontend capability, not the defaults
FrontendSection == ~curpx.defaults /\ curpx.cap_fe

\* a tcp-request inspect-delay line of the section was accepted before
DelayDeclared == \E k \in 1..Len(parsed) : Arg(parsed[k], 1) = "inspect-delay"

\* C14: of the well-formed tcp-request inspect-delay lines of a frontend
\* section the first returns 0 and sets inspect_delay to its value; every
\* later one returns a positive warning and leaves inspect_delay as the
\* first set it, whatever that value is, 0 included.
C14_DuplicateDelayIgnored ==
  [][(call'.op = "parse" /\ WellFormedDelay(call'.args) /\ FrontendSection) =>
       IF DelayDeclared
       THEN /\ call'.ret > 0
            /\ curpx'.tcp_req.inspect_delay = curpx.tcp_req.inspect_delay
       ELSE /\ call'.ret = 0
            /\ curpx'.tcp_req.inspect_delay
                 = parse_time_err(Arg(call'.args, 2)).val]_vars

\* the tcp-request line is malformed: no sub-keyword or an unknown one, no
\* duration or one that does not parse, an action that is neither accept
\* nor reject, a token after the action that is neither if nor unless, or a
\* condition that does not compile
Malformed(args) ==
  \/ Arg(args, 1) = ""
  \/ Arg(args, 1) \notin {"inspect-delay", "content"}
  \/ /\ Arg(args, 1) = "inspect-delay"
     /\ Arg(args, 2) = "" \/ parse_time_err(Arg(args, 2)).ptr /= <<>>
  \/ /\ Arg(args, 1) = "content"
     /\ \/ Arg(args, 2) \notin {"accept", "reject"}
        \/ Arg(args, 3) \notin {"", "if", "unless"}
        \/ Arg(args, 3) \in {"if", "unless"} /\ Arg(args, 4) \notin DeclaredAcls

\* C15: for every malformed tcp-request line, in a section of any kind (a
\* proxy without the frontend capability and the defaults included),
\* tcp_parse_tcp_req returns a negative value, never 0 or a positive one,
\* and leaves a message in err.
C15_MalformedIsFatal ==
  (call.op = "parse" /\ Malformed(call.args)) =>
    /\ call.ret < 0
    /\ errbuf /= ""

\* the message of the last step of the traced call that set one
LastMessage ==
  IF Failed("socket") THEN "cannot create listening socket"
  ELSE IF call.fd >= MaxSock THEN "not enough free sockets (raise '-n' parameter)"
  ELSE IF Failed("fcntl") \/ Failed("TCP_NODELAY") THEN "cannot make socket non-blocking"
  ELSE IF Failed("bind") THEN "cannot bind socket"
  ELSE IF Failed("listen") THEN "cannot listen to socket"
  ELSE IF Failed("IP_FREEBIND") THEN "cannot make listening socket transparent"
  ELSE IF Failed("SO_REUSEADDR") THEN "cannot do so_reuseaddr"
  ELSE ""

\* the first n characters of text, all of it when it is shorter
Prefix(text, n) == IF Len(text) <= n THEN text ELSE SubSeq(text, 1, n)

\* after a call with a buffer of at least minlen bytes: the buffer holds a
\* message exactly when the code has ERR_WARN or ERR_ALERT, none with
\* ERR_NONE, and it is the one message of the last step that set one, cut to
\* the buffer
MessageIffReported(minlen) ==
  (call.op = "bind" /\ call.errlen >= minlen) =>
    /\ errbuf /= "" <=> (HasFlag(call.ret, ERR_WARN) \/ HasFlag(call.ret, ERR_ALERT))
    /\ call.ret = ERR_NONE => errbuf = ""
    /\ errbuf = Prefix(LastMessage, call.errlen - 1)

\* in every state and for every outcome of the system calls, a call with a
\* buffer of length 0 returns the code, makes the calls, gets the descriptor
\* and readies the listener as the call with a buffer does, and leaves the
\* buffer as it is
ZeroLengthSameCall ==
  \A o \in BindOutcomes(1) :
    LET r0 == tcp_bind_listener(1, "errbuf", 0, o)
        r1 == tcp_bind_listener(1, "errbuf", LongLen, o)
    IN /\ r0.ret = r1.ret
       /\ r0.trace = r1.trace
       /\ r0.fd = r1.fd
       /\ r0.ready = r1.ready
       /\ r0.buf = errbuf

\* a call made with a buffer of length 0 leaves the buffer as it was
ZeroLengthWritesNothing ==
  [][(call'.op = "bind" /\ call'.errlen = 0) => errbuf' = errbuf]_vars

\* C16 as claimed: tcp_bind_listener called with a buffer that is not of
\* length 0 leaves a non-empty message exactly when the code has ERR_WARN or
\* ERR_ALERT (none with ERR_NONE), the one of the last step that set one;
\* with a buffer of length 0 it writes nothing and returns the same code
\* with the same effects.
C16_MessageIffWarnOrAlert ==
  /\ []MessageIffReported(1)
  /\ []ZeroLengthSameCall
  /\ ZeroLengthWritesNothing

\* C16 as amended: the same for a buffer of at least 2 bytes; a buffer of 1
\* byte has room for the end of string only and is left empty whatever the
\* code is.
C16_MessageIffRoomForIt ==
  /\ []MessageIffReported(2)
  /\ [](call.op = "bind" /\ call.errlen = 1 => errbuf = "")
  /\ []ZeroLengthSameCall
  /\ ZeroLengthWritesNothing

C16_Witness ==
  /\ call.op = "bind"
  /\ call.errlen = LongLen
  /\ Failed("SO_REUSEADDR")
  /\ Failed("bind")
  /\ errbuf = "cannot bind socket"
  /\ Flags(call.ret) = {ERR_RETRYABLE, ERR_ALERT}

\* the call named n of trace t was made and failed
FailedIn(t, n) == \E k \in 1..Len(t) : t[k].sc = n /\ ~t[k].ok

\* the trace holds a request for the transparent capability
AsksIn(t) == "IP_TRANSPARENT" \in Made(t) \/ "IP_FREEBIND" \in Made(t)

\* C17: ip_transp_working starts at 1; a call of tcpv4_bind_socket changes
\* it only from 1 to 0, and does so exactly when its flags are not 0 and
\* both IP_TRANSPARENT and IP_FREEBIND were refused; once it is 0 it stays 0
\* and no later call asks for the capability; while it is 1 a bind to the
\* foreign address that fails leaves it at 1.
C17_TransparentClearedOnce ==
  /\ ip_transp_working = 1
  /\ [][call'.op = "bind_socket" =>
          /\ ip_transp_working' /= ip_transp_working =>
               /\ ip_transp_working = 1
               /\ ip_transp_working' = 0
               /\ call'.flags /= 0
               /\ FailedIn(sys', "IP_TRANSPARENT")
               /\ FailedIn(sys', "IP_FREEBIND")
          /\ (FailedIn(sys', "IP_TRANSPARENT") /\ FailedIn(sys', "IP_FREEBIND"))
               => ip_transp_working' = 0
          /\ ip_transp_working = 0 =>
               /\ ip_transp_working' = 0
               /\ ~AsksIn(sys')
          /\ (ip_transp_working = 1 /\ AsksIn(sys') /\ ~FailedIn(sys', "IP_FREEBIND")
                /\ FailedIn(sys', "bind"))
               => ip_transp_working' = 1 /\ call'.ret = 2]_vars

C17_Witness ==
  /\ SocketBound(3)
  /\ build.LINUX_TPROXY
  /\ call.pre_working = 0
  /\ ip_transp_working = 0
  /\ ~AsksIn(sys)
  /\ LocalBound

\* the foreign address the claim gives for the flags of the last call: the
\* host of <remote> with bit 0, its port with bit 1, zero otherwise
ForeignAddr ==
  [host |-> IF call.flags % 2 = 1 THEN fb_remote[1].host ELSE 0,
   port |-> IF call.flags \div 2 = 1 THEN fb_remote[1].port ELSE 0]

\* the last call asked for the transparent capability and was given it
GotTransparent == AsksIn(sys) /\ ~Failed("IP_FREEBIND")

\* C18: with flags 1, 2 or 3 the address tcpv4_bind_socket binds when it has
\* the transparent capability, and the one it gives TPROXY_ASSIGN when it
\* has not, is the host of <remote> if bit 0 is set and 0 otherwise, with
\* the port of <remote> if bit 1 is set and 0 otherwise, whatever <local>
\* is; <local> itself is what is bound exactly when the capability was not
\* obtained.
C18_ForeignAddressMerged ==
  (call.op = "bind_socket" /\ call.flags \in 1..3) =>
    /\ \A k \in 1..Len(sys) :
         /\ sys[k].sc = "bind" =>
              sys[k].arg = IF GotTransparent THEN ForeignAddr ELSE fb_local
         /\ sys[k].sc = "TPROXY_ASSIGN" => sys[k].arg = ForeignAddr /\ ~GotTransparent
    /\ "bind" \in Made(sys)

C18_Witness ==
  /\ SocketBound(1)
  /\ Failed("IP_FREEBIND")
  /\ LocalBound
  /\ fb_local.host /= fb_remote[1].host
  /\ \E k \in 1..Len(sys) :
       /\ sys[k].sc = "TPROXY_ASSIGN"
       /\ sys[k].arg = [host |-> fb_remote[1].host, port |-> 0]
  /\ call.ret = 0

\* C19: whatever add, bind and batch calls are made, a listener's state
\* changes only from LI_INIT to LI_ASSIGNED (by an add) and from LI_ASSIGNED
\* to LI_LISTEN (by a bind), never back and never from LI_INIT to LI_LISTEN;
\* a listener that is LI_LISTEN stays so with the descriptor it stored, which
\* stays open, and a bind of it, in a batch or not, creates no socket: hence
\* it is bound once at most and no batch undoes or redoes it.
C19_StateOnlyForward ==
  [][\A l \in Listeners :
       /\ li_state'[l] /= li_state[l] =>
            \/ /\ li_state[l] = LI_INIT /\ li_state'[l] = LI_ASSIGNED
               /\ call'.op = "add" /\ call'.l = l
            \/ /\ li_state[l] = LI_ASSIGNED /\ li_state'[l] = LI_LISTEN
               /\ call'.op = "bind" /\ call'.l = l
               /\ li_fd'[l] \in open_fds' \ open_fds
       /\ li_state[l] = LI_LISTEN =>
            /\ li_state'[l] = LI_LISTEN
            /\ li_fd'[l] = li_fd[l]
            /\ li_fd[l] \in open_fds'
            /\ (call'.op = "bind" /\ call'.l = l) =>
                 call'.fd = -1 /\ open_fds' = open_fds /\ call'.ret = ERR_NONE
       /\ li_state[l] /= LI_LISTEN => li_fd[l] = -1]_vars

C19_Witness ==
  /\ BatchDone
  /\ Len(ba.codes) = 2
  /\ HasFlag(ba.codes[1], ERR_ABORT)
  /\ li_state[ba.attempted[1]] = LI_ASSIGNED
  /\ call.op = "bind" /\ call.l = ba.attempted[2]
  /\ call.pre_state = LI_LISTEN
  /\ li_state[call.l] = LI_LISTEN
  /\ li_fd[call.l] \in open_fds

\* the code of the last call has neither ERR_RETRYABLE nor ERR_FATAL
NoFailure == ~HasFlag(call.ret, ERR_RETRYABLE) /\ ~HasFlag(call.ret, ERR_FATAL)

\* C20: after tcp_bind_listener returns on a listener that was LI_ASSIGNED,
\* the listener is LI_LISTEN with the descriptor stored and open exactly
\* when the code has neither ERR_RETRYABLE nor ERR_FATAL, the code being
\* then ERR_NONE or ERR_ALERT alone; otherwise it is still LI_ASSIGNED with
\* no descriptor stored, and any call on a LI_ASSIGNED listener starts with
\* socket().
C20_ListenIffNoFailure ==
  /\ [](BoundAssigned =>
          /\ NoFailure <=> /\ li_state[call.l] = LI_LISTEN
                           /\ li_fd[call.l] = call.fd
                           /\ call.fd \in open_fds
          /\ NoFailure => Flags(call.ret) \in {{}, {ERR_ALERT}}
          /\ ~NoFailure => li_state[call.l] = LI_ASSIGNED /\ li_fd[call.l] = -1)
  /\ [][(call'.op = "bind" /\ li_state[call'.l] = LI_ASSIGNED) =>
          /\ Len(sys') >= 1
          /\ sys'[1].sc = "socket"]_vars

C20_Witness ==
  /\ BoundAssigned
  /\ call.pre_msg
  /\ call.errlen = 0
  /\ Flags(call.ret) = {ERR_ALERT}
  /\ li_state[call.l] = LI_LISTEN
  /\ li_fd[call.l] \in open_fds
  /\ sys[1].sc = "socket" /\ sys[1].ok

====
